---- MODULE Spec2Model ----
(***************************************************************************)
(* ResourceField of pkg/stanza/entry: a path of string keys into the       *)
(* Resource mapping of an Entry, with Get / Set / Merge / Delete and the   *)
(* Parent / Child constructors.                                            *)
(*                                                                         *)
(* Representation of Go values.  An interface{} value is a finite tree,    *)
(* written as a function from the paths of its nodes (sequences of keys)   *)
(* to node labels: the label "map" marks a map[string]interface{} node,    *)
(* "nil" is the nil interface, "seq" a sequence, "" the empty string and   *)
(* any other label a scalar.  entry.Resource is such a tree whose root is  *)
(* labelled "map", or Absent for the nil map.  A map nested in the         *)
(* resource is addressed by its path from the root, which is what the      *)
(* code's currentMap variable points at.  Values are compared by content;  *)
(* no two maps of an entry share storage.                                  *)
(*                                                                         *)
(* A []string is a slice header (backing array, length) over a heap of     *)
(* arrays; the capacity of a slice is the length of its backing array,     *)
(* because every slice of this file starts at offset 0.                    *)
(***************************************************************************)
EXTENDS Naturals, Sequences, FiniteSets, TLC

VARIABLES
    resource,   \* entry.Resource
    arrays,     \* heap of backing arrays of the Keys slices
    fields,     \* the ResourceField values constructed so far
    want,       \* for each field, the keys it was constructed with
    last,       \* the most recent call on the entry and what it returned
    prev,       \* the call before it (operation, keys, argument)
    calls,      \* number of calls made on the entry
    panicked    \* a call ended in a run-time panic

vars == <<resource, arrays, fields, want, last, prev, calls, panicked>>

----------------------------------------------------------------------------
(* Bounds *)

MaxKeyLen == 3      \* longest key path of a configured field
MaxCalls == 2       \* calls made on one entry
MaxFields == 3      \* fields built by Parent / Child in one run

Keys == {"a", "b", "c"}

----------------------------------------------------------------------------
(* Values *)

Absent == << >>

Leaf(s) == [p \in {<< >>} |-> s]

EmptyMap == Leaf("map")

NilValue == Leaf("nil")

IsMap(v) == v # Absent /\ v[<< >>] = "map"

IsPrefix(p, r) == Len(p) <= Len(r) /\ SubSeq(r, 1, Len(p)) = p

Drop(r, n) == SubSeq(r, n + 1, Len(r))

Front(keys) == SubSeq(keys, 1, Len(keys) - 1)

\* the value stored in tree t at path p
Sub(t, p) ==
    [q \in {Drop(r, Len(p)) : r \in {r \in DOMAIN t : IsPrefix(p, r)}}
        |-> t[p \o q]]

\* currentMap[key] = v, where currentMap is the map at path p of t
Store(t, p, key, v) ==
    LET at == Append(p, key)
        keep == {r \in DOMAIN t : ~IsPrefix(at, r)}
        new == {at \o q : q \in DOMAIN v}
    IN  [r \in keep \cup new |->
            IF r \in new THEN v[Drop(r, Len(at))] ELSE t[r]]

\* delete(currentMap, key)
Remove(t, p, key) ==
    LET at == Append(p, key)
    IN  [r \in {r \in DOMAIN t : ~IsPrefix(at, r)} |-> t[r]]

\* _, ok := currentMap[key]
HasKey(t, p, key) == Append(p, key) \in DOMAIN t

\* a one-key or two-key map literal
MapOf1(k, v) == Store(EmptyMap, << >>, k, v)

MapOf2(k1, v1, k2, v2) == Store(MapOf1(k1, v1), << >>, k2, v2)

NonMapValues == {Leaf("x"), NilValue, Leaf("seq")}

MapValues ==
    { EmptyMap,
      MapOf1("a", Leaf("x")),
      MapOf1("b", MapOf1("a", Leaf("y"))),
      MapOf2("a", NilValue, "b", Leaf("y")) }

Values == NonMapValues \cup MapValues

InitResources ==
    { Absent,
      EmptyMap,
      MapOf1("a", Leaf("5")),
      MapOf1("b", Leaf("h")),
      MapOf1("a", MapOf1("b", Leaf("1"))),
      MapOf2("a", MapOf2("a", Leaf("0"), "b", MapOf1("a", Leaf("2"))), "b", Leaf("h")) }

RECURSIVE SeqsUpTo(_)
SeqsUpTo(n) ==
    IF n = 0 THEN {<< >>}
    ELSE LET s == SeqsUpTo(n - 1)
         IN  s \cup {Append(q, k) : q \in {q \in s : Len(q) = n - 1}, k \in Keys}

FieldKeys == SeqsUpTo(MaxKeyLen)

----------------------------------------------------------------------------
(* ResourceField.Get *)

NotFound(res, v) == [resource |-> res, value |-> v, ok |-> FALSE, err |-> "nil"]

RECURSIVE GetLoop(_, _, _)
GetLoop(res, currentValue, keys) ==
    IF keys = << >>
    THEN [resource |-> res, value |-> currentValue, ok |-> TRUE, err |-> "nil"]
    ELSE IF ~IsMap(currentValue)
    THEN NotFound(res, NilValue)
    ELSE IF ~HasKey(currentValue, << >>, Head(keys))
    THEN NotFound(res, NilValue)
    ELSE GetLoop(res, Sub(currentValue, <<Head(keys)>>), Tail(keys))

isRoot(keys) == Len(keys) = 0

\* Get without the check for an absent resource
GetNoNilCheck(res, keys) ==
    IF isRoot(keys)
    THEN [resource |-> res, value |-> res, ok |-> TRUE, err |-> "nil"]
    ELSE IF ~HasKey(res, << >>, keys[1])
    THEN NotFound(res, NilValue)
    ELSE GetLoop(res, Sub(res, <<keys[1]>>), Tail(keys))

\* Get that makes an absent resource an empty map first, as Set does
GetCreatesResource(res, keys) ==
    LET r1 == IF res = Absent THEN Leaf("map") ELSE res
    IN  IF isRoot(keys)
        THEN [resource |-> r1, value |-> r1, ok |-> TRUE, err |-> "nil"]
        ELSE IF ~HasKey(r1, << >>, keys[1])
        THEN NotFound(r1, NilValue)
        ELSE GetLoop(r1, Sub(r1, <<keys[1]>>), Tail(keys))

Get(res, keys) ==
    IF res = Absent
    THEN NotFound(res, Leaf(""))
    ELSE IF isRoot(keys)
    THEN [resource |-> res, value |-> res, ok |-> TRUE, err |-> "nil"]
    ELSE IF ~HasKey(res, << >>, keys[1])
    THEN NotFound(res, NilValue)
    ELSE GetLoop(res, Sub(res, <<keys[1]>>), Tail(keys))

----------------------------------------------------------------------------
(* getNestedMap: the map stored under key in currentMap (the map at path p *)
(* of t); a missing key or a value that is not a map is first replaced by  *)
(* a new empty map.  Writing into the nil map panics.                      *)

getNestedMap(t, p, key) ==
    IF t = Absent
    THEN [tree |-> t, at |-> p, panic |-> TRUE]
    ELSE IF HasKey(t, p, key) /\ t[Append(p, key)] = "map"
    THEN [tree |-> t, at |-> Append(p, key), panic |-> FALSE]
    ELSE [tree |-> Store(t, p, key, EmptyMap), at |-> Append(p, key), panic |-> FALSE]

----------------------------------------------------------------------------
(* ResourceField.Merge *)

Done(res, e) == [resource |-> res, value |-> NilValue, ok |-> FALSE, err |-> e]

TopKeys(m) == {r[1] : r \in {r \in DOMAIN m : Len(r) = 1}}

\* for _, key := range f.Keys { currentMap = getNestedMap(currentMap, key) }
RECURSIVE MergeWalk(_, _, _)
MergeWalk(t, p, keys) ==
    IF keys = << >>
    THEN [tree |-> t, at |-> p, panic |-> FALSE]
    ELSE LET n == getNestedMap(t, p, Head(keys))
         IN  IF n.panic THEN n ELSE MergeWalk(n.tree, n.at, Tail(keys))

\* for key, value := range mapValues { currentMap[key] = value }
RECURSIVE Overlay(_, _, _, _)
Overlay(t, p, mapValues, todo) ==
    IF todo = {}
    THEN [tree |-> t, at |-> p, panic |-> FALSE]
    ELSE IF t = Absent
    THEN [tree |-> t, at |-> p, panic |-> TRUE]
    ELSE LET key == CHOOSE k \in todo : TRUE
         IN  Overlay(Store(t, p, key, Sub(mapValues, <<key>>)), p, mapValues,
                     todo \ {key})

\* Merge that puts mapValues in place of the map at the field
MergeReplaces(res, keys, mapValues) ==
    LET w == MergeWalk(res, << >>, keys)
    IN  IF w.panic THEN Done(res, "panic")
        ELSE IF keys = << >> THEN Done(mapValues, "nil")
        ELSE Done(Store(w.tree, Front(keys), keys[Len(keys)], mapValues), "nil")

Merge(res, keys, mapValues) ==
    LET w == MergeWalk(res, << >>, keys)
        o == Overlay(w.tree, w.at, mapValues, TopKeys(mapValues))
    IN  IF w.panic THEN Done(res, "panic")
        ELSE IF o.panic THEN Done(w.tree, "panic")
        ELSE Done(o.tree, "nil")

----------------------------------------------------------------------------
(* ResourceField.Set *)

\* the loop of Set without its break: the last key is walked into as well
RECURSIVE SetLoopNoBreak(_, _, _, _)
SetLoopNoBreak(t, p, keys, value) ==
    IF keys = << >>
    THEN [tree |-> t, at |-> p, panic |-> FALSE]
    ELSE LET w == IF Len(keys) = 1 THEN Store(t, p, keys[1], value) ELSE t
             n == getNestedMap(w, p, Head(keys))
         IN  IF n.panic THEN n ELSE SetLoopNoBreak(n.tree, n.at, Tail(keys), value)

RECURSIVE SetLoop(_, _, _, _)
SetLoop(t, p, keys, value) ==
    IF Len(keys) = 1
    THEN [tree |-> Store(t, p, keys[1], value), at |-> p, panic |-> FALSE]
    ELSE LET n == getNestedMap(t, p, Head(keys))
         IN  IF n.panic THEN n ELSE SetLoop(n.tree, n.at, Tail(keys), value)

\* Set that does not replace an absent resource by an empty map
SetNoInit(res, keys, value) ==
    IF IsMap(value)
    THEN Merge(res, keys, value)
    ELSE IF isRoot(keys)
    THEN Done(res, "error")
    ELSE LET s == SetLoop(res, << >>, keys, value)
         IN  Done(s.tree, IF s.panic THEN "panic" ELSE "nil")

Set(res, keys, value) ==
    LET r1 == IF res = Absent THEN EmptyMap ELSE res
    IN  IF IsMap(value)
        THEN Merge(r1, keys, value)
        ELSE IF isRoot(keys)
        THEN Done(r1, "error")
        ELSE LET s == SetLoop(r1, << >>, keys, value)
             IN  Done(s.tree, IF s.panic THEN "panic" ELSE "nil")

----------------------------------------------------------------------------
(* ResourceField.Delete *)

\* the loop of Delete returning the value without deleting the key
RECURSIVE DeleteLoopKeepsKey(_, _, _)
DeleteLoopKeepsKey(t, p, keys) ==
    IF keys = << >> \/ ~HasKey(t, p, Head(keys))
    THEN NotFound(t, NilValue)
    ELSE IF Len(keys) = 1
    THEN [resource |-> t,
          value |-> Sub(t, Append(p, keys[1])), ok |-> TRUE, err |-> "nil"]
    ELSE IF t[Append(p, Head(keys))] # "map"
    THEN NotFound(t, NilValue)
    ELSE DeleteLoopKeepsKey(t, Append(p, Head(keys)), Tail(keys))

RECURSIVE DeleteLoop(_, _, _)
DeleteLoop(t, p, keys) ==
    IF keys = << >> \/ ~HasKey(t, p, Head(keys))
    THEN NotFound(t, NilValue)
    ELSE IF Len(keys) = 1
    THEN [resource |-> Remove(t, p, keys[1]),
          value |-> Sub(t, Append(p, keys[1])), ok |-> TRUE, err |-> "nil"]
    ELSE IF t[Append(p, Head(keys))] # "map"
    THEN NotFound(t, NilValue)
    ELSE DeleteLoop(t, Append(p, Head(keys)), Tail(keys))

\* Delete that leaves an empty map, not an absent resource, at the root
DeleteRootEmpties(res, keys) ==
    IF res = Absent
    THEN NotFound(res, Leaf(""))
    ELSE IF isRoot(keys)
    THEN [resource |-> Leaf("map"), value |-> res, ok |-> TRUE, err |-> "nil"]
    ELSE DeleteLoop(res, << >>, keys)

Delete(res, keys) ==
    IF res = Absent
    THEN NotFound(res, Leaf(""))
    ELSE IF isRoot(keys)
    THEN [resource |-> Absent, value |-> res, ok |-> TRUE, err |-> "nil"]
    ELSE DeleteLoop(res, << >>, keys)

----------------------------------------------------------------------------
(* Construction of fields: NewResourceField, Parent, Child *)

KeysOf(arrs, f) == SubSeq(arrs[f.arr], 1, f.len)

\* the variadic keys slice becomes the Keys slice (nil is replaced by an
\* empty slice)
NewResourceField(arrs, keys) ==
    [arrays |-> Append(arrs, keys),
     field |-> [arr |-> Len(arrs) + 1, len |-> Len(keys)]]

\* f.Keys[:len(f.Keys)-1] shares the backing array of f.Keys
Parent(arrs, f) ==
    IF f.len = 0
    THEN [arrays |-> arrs, field |-> f]
    ELSE [arrays |-> arrs, field |-> [arr |-> f.arr, len |-> f.len - 1]]

\* Child by append(f.Keys, key): the key goes into the receiver's backing
\* array when it has room
ChildAppends(arrs, f, key) ==
    IF f.len < Len(arrs[f.arr])
    THEN [arrays |-> [arrs EXCEPT ![f.arr][f.len + 1] = key],
          field |-> [arr |-> f.arr, len |-> f.len + 1]]
    ELSE [arrays |-> Append(arrs, Append(KeysOf(arrs, f), key)),
          field |-> [arr |-> Len(arrs) + 1, len |-> f.len + 1]]

\* make([]string, len, len+1); copy; append: a fresh backing array
Child(arrs, f, key) ==
    [arrays |-> Append(arrs, Append(KeysOf(arrs, f), key)),
     field |-> [arr |-> Len(arrs) + 1, len |-> f.len + 1]]

----------------------------------------------------------------------------
(* Calls on one entry through one configured field *)

NoCall ==
    [op |-> "none", keys |-> << >>, arg |-> NilValue, before |-> Absent,
     value |-> NilValue, ok |-> FALSE, err |-> "nil"]

Init ==
    /\ resource \in InitResources
    /\ \E keys \in FieldKeys :
          LET n == NewResourceField(<< >>, keys)
          IN  /\ arrays = n.arrays
              /\ fields = <<n.field>>
              /\ want = <<keys>>
    /\ last = NoCall
    /\ prev = NoCall
    /\ calls = 0
    /\ panicked = FALSE

Receiver(i) == KeysOf(arrays, fields[i])

CanCall == calls < MaxCalls /\ ~panicked

\* the entry after the call, and the record of the call
Record(op, keys, arg, r) ==
    /\ resource' = r.resource
    /\ last' = [op |-> op, keys |-> keys, arg |-> arg, before |-> resource,
                value |-> r.value, ok |-> r.ok, err |-> r.err]
    /\ prev' = last
    /\ calls' = calls + 1
    /\ panicked' = (r.err = "panic")

\* f.Get(entry)
GetCall ==
    /\ CanCall
    /\ \E i \in DOMAIN fields :
          Record("Get", Receiver(i), NilValue, Get(resource, Receiver(i)))
    /\ UNCHANGED <<arrays, fields, want>>

\* f.Child(key).Get(entry): the child is a temporary on the heap
GetChildCall ==
    /\ CanCall
    /\ \E i \in DOMAIN fields, key \in Keys :
          LET c == Child(arrays, fields[i], key)
              keys == KeysOf(c.arrays, c.field)
          IN  /\ Record("Get", keys, NilValue, Get(resource, keys))
              /\ arrays' = c.arrays
    /\ UNCHANGED <<fields, want>>

\* f.Set(entry, value)
SetCall ==
    /\ CanCall
    /\ \E i \in DOMAIN fields, value \in Values :
          Record("Set", Receiver(i), value, Set(resource, Receiver(i), value))
    /\ UNCHANGED <<arrays, fields, want>>

\* f.Merge(entry, mapValues)
MergeCall ==
    /\ CanCall
    /\ \E i \in DOMAIN fields, mapValues \in MapValues :
          Record("Merge", Receiver(i), mapValues,
                 Merge(resource, Receiver(i), mapValues))
    /\ UNCHANGED <<arrays, fields, want>>

\* f.Delete(entry)
DeleteCall ==
    /\ CanCall
    /\ \E i \in DOMAIN fields :
          Record("Delete", Receiver(i), NilValue, Delete(resource, Receiver(i)))
    /\ UNCHANGED <<arrays, fields, want>>

Next == GetCall \/ GetChildCall \/ SetCall \/ MergeCall \/ DeleteCall

Spec == Init /\ [][Next]_vars

----------------------------------------------------------------------------
(* Fields derived from one another by Parent and Child, and used on an     *)
(* entry in between                                                        *)

InitField ==
    /\ resource = MapOf1("a", MapOf1("b", Leaf("1")))
    /\ \E keys \in {q \in FieldKeys : Len(q) <= 2} :
          LET n == NewResourceField(<< >>, keys)
          IN  /\ arrays = n.arrays
              /\ fields = <<n.field>>
              /\ want = <<keys>>
    /\ last = NoCall
    /\ prev = NoCall
    /\ calls = 0
    /\ panicked = FALSE

CanDerive == Len(fields) < MaxFields /\ ~panicked

\* g := f.Parent()
ParentStep ==
    /\ CanDerive
    /\ \E i \in DOMAIN fields :
          LET r == Parent(arrays, fields[i])
          IN  /\ arrays' = r.arrays
              /\ fields' = Append(fields, r.field)
              /\ want' = Append(want,
                    IF want[i] = << >> THEN want[i] ELSE Front(want[i]))
    /\ UNCHANGED <<resource, last, prev, calls, panicked>>

\* g := f.Child(key)
ChildStep ==
    /\ CanDerive
    /\ \E i \in DOMAIN fields, key \in Keys :
          LET r == Child(arrays, fields[i], key)
          IN  /\ arrays' = r.arrays
              /\ fields' = Append(fields, r.field)
              /\ want' = Append(want, Append(want[i], key))
    /\ UNCHANGED <<resource, last, prev, calls, panicked>>

\* the entry after a call whose result is dropped
Apply(r) ==
    /\ resource' = r.resource
    /\ calls' = calls + 1
    /\ panicked' = (r.err = "panic")
    /\ UNCHANGED <<arrays, fields, want, last, prev>>

FieldValues == {Leaf("x"), MapOf1("b", Leaf("y"))}

ApplyGet ==
    /\ CanCall
    /\ \E i \in DOMAIN fields : Apply(Get(resource, Receiver(i)))

ApplySet ==
    /\ CanCall
    /\ \E i \in DOMAIN fields, value \in FieldValues :
          Apply(Set(resource, Receiver(i), value))

ApplyMerge ==
    /\ CanCall
    /\ \E i \in DOMAIN fields, mapValues \in FieldValues :
          /\ IsMap(mapValues)
          /\ Apply(Merge(resource, Receiver(i), mapValues))

ApplyDelete ==
    /\ CanCall
    /\ \E i \in DOMAIN fields : Apply(Delete(resource, Receiver(i)))

NextField ==
    \/ ParentStep \/ ChildStep
    \/ ApplyGet \/ ApplySet \/ ApplyMerge \/ ApplyDelete

SpecField == InitField /\ [][NextField]_vars

----------------------------------------------------------------------------
(* Properties *)

Prefixes(p) == {SubSeq(p, 1, i) : i \in 0..Len(p)}

ProperPrefixes(p) == Prefixes(p) \ {p}

\* every key of p can be followed in order through maps of t
Stored(t, p) ==
    /\ t # Absent
    /\ p \in DOMAIN t
    /\ \A q \in ProperPrefixes(p) : q \in DOMAIN t /\ t[q] = "map"

\* r lies neither on the path p nor below it
OffPath(r, p) == ~IsPrefix(r, p) /\ ~IsPrefix(p, r)

\* the values of m are found under p in t, key by key
Overlaid(t, p, m) ==
    \A k \in TopKeys(m) : Stored(t, Append(p, k)) /\ Sub(t, Append(p, k)) = Sub(m, <<k>>)

\* the keys of the map at p in t0 that m does not mention are as they were
OthersKept(t0, t, p, m) ==
    (Stored(t0, p) /\ t0[p] = "map") =>
        \A r \in DOMAIN t0 :
            (IsPrefix(p, r) /\ Len(r) > Len(p) /\ r[Len(p) + 1] \notin TopKeys(m))
                => (r \in DOMAIN t /\ t[r] = t0[r])

\* the resource is a map whose nested values hang off maps
WellFormed(t) ==
    t # Absent => (t[<< >>] = "map" /\ \A r \in DOMAIN t : Stored(t, r))

TypeOK ==
    /\ WellFormed(resource)
    /\ WellFormed(last.before)
    /\ calls \in 0..MaxCalls
    /\ panicked \in BOOLEAN

\* C7: Get finds a value exactly when the resource is present and every key
\* of the path can be followed in order through maps; the value found is the
\* value stored at the path (the whole resource for the root field).  With
\* resource = {"a": {"b": 1}}, neither resource.a.c nor resource.a.b.c is
\* found.
C7_GetFindsStoredValue ==
    last.op = "Get" =>
        /\ last.ok <=> Stored(last.before, last.keys)
        /\ last.ok => last.value = Sub(last.before, last.keys)
        /\ (last.ok /\ last.keys = << >>) => last.value = last.before
        /\ last.err = "nil"
        /\ (last.before = MapOf1("a", MapOf1("b", Leaf("1")))
              /\ last.keys \in {<<"a", "c">>, <<"a", "b", "c">>}) => ~last.ok

C7_Witness ==
    /\ last.op = "Get"
    /\ last.before = MapOf1("a", MapOf1("b", Leaf("1")))
    /\ last.keys = <<"a", "b", "c">>
    /\ ~last.ok

\* C6: Get never changes the entry, and a Delete that meets a missing key or
\* an intermediate value that is not a map reports existed = false and leaves
\* the resource exactly as it was (an absent resource stays absent).
C6_ReadsAndFailedDeletesKeepEntry ==
    /\ last.op = "Get" => resource = last.before
    /\ (last.op = "Delete" /\ ~Stored(last.before, last.keys)) =>
            (~last.ok /\ resource = last.before)
    /\ (last.op = "Delete" /\ ~last.ok) => resource = last.before

C6_Witness ==
    /\ last.op = "Delete"
    /\ last.before = MapOf1("a", Leaf("5"))
    /\ last.keys = <<"a", "b">>
    /\ ~last.ok
    /\ prev.op = "Get"
    /\ prev.before = last.before

\* C8: Set on a non-root field returns no error whatever the shape of the
\* resource: every key before the last one leads to a map afterwards (created
\* or put in place of a value that was not a map), the value is at the
\* terminal key, and what lies off the written path is as it was.
\* {"a": 5} with resource.a.b set to "x" becomes {"a": {"b": "x"}};
\* {"b": "h"} with resource.a set to "x" becomes {"a": "x", "b": "h"}.
C8_SetNonRootCoerces ==
    (last.op = "Set" /\ last.keys # << >>) =>
        /\ last.err = "nil"
        /\ \A q \in ProperPrefixes(last.keys) : Stored(resource, q) /\ resource[q] = "map"
        /\ Stored(resource, last.keys)
        /\ ~IsMap(last.arg) => Sub(resource, last.keys) = last.arg
        /\ IsMap(last.arg) =>
                (resource[last.keys] = "map" /\ Overlaid(resource, last.keys, last.arg))
        /\ \A r \in DOMAIN last.before :
                OffPath(r, last.keys) => (r \in DOMAIN resource /\ resource[r] = last.before[r])
        /\ \A r \in DOMAIN resource :
                OffPath(r, last.keys) => r \in DOMAIN last.before
        /\ (last.before = MapOf1("a", Leaf("5")) /\ last.keys = <<"a", "b">>
              /\ last.arg = Leaf("x")) => resource = MapOf1("a", MapOf1("b", Leaf("x")))
        /\ (last.before = MapOf1("b", Leaf("h")) /\ last.keys = <<"a">>
              /\ last.arg = Leaf("x")) => resource = MapOf2("a", Leaf("x"), "b", Leaf("h"))

C8_Witness ==
    /\ last.op = "Set"
    /\ last.before = MapOf1("a", Leaf("5"))
    /\ last.keys = <<"a", "b">>
    /\ last.arg = Leaf("x")
    /\ resource = MapOf1("a", MapOf1("b", Leaf("x")))

\* the second of two calls in a row made with the same keys
Then(op1, op2) ==
    prev.op = op1 /\ last.op = op2 /\ last.keys = prev.keys

\* C1 as stated: for every field, root or not, Set of a value that is not a
\* map followed by Get returns that value and true.
C1_SetThenGetAnyField ==
    (Then("Set", "Get") /\ ~IsMap(prev.arg)) =>
        (last.ok /\ last.value = prev.arg)

\* C1 amended: for every non-root field, Set of a value that is not a map
\* returns no error and a following Get returns that value and true.
C1_SetThenGetNonRoot ==
    (Then("Set", "Get") /\ ~IsMap(prev.arg) /\ prev.keys # << >>) =>
        (prev.err = "nil" /\ last.ok /\ last.value = prev.arg)

C1_Witness ==
    /\ Then("Set", "Get")
    /\ prev.before = Absent
    /\ Len(prev.keys) = 3
    /\ prev.arg = Leaf("seq")
    /\ last.ok
    /\ last.value = Leaf("seq")

\* C2: Set of a map returns no error on any entry and any field; afterwards
\* Get of the child field of every key of the map returns that key's value
\* and true, and the keys the map at the field already had and the argument
\* does not mention keep their values.
C2_SetOfMapMerges ==
    /\ (last.op = "Set" /\ IsMap(last.arg)) =>
            /\ last.err = "nil"
            /\ Overlaid(resource, last.keys, last.arg)
            /\ OthersKept(last.before, resource, last.keys, last.arg)
    /\ (prev.op = "Set" /\ IsMap(prev.arg) /\ last.op = "Get"
          /\ Len(last.keys) = Len(prev.keys) + 1
          /\ Front(last.keys) = prev.keys
          /\ last.keys[Len(last.keys)] \in TopKeys(prev.arg)) =>
            (last.ok /\ last.value = Sub(prev.arg, <<last.keys[Len(last.keys)]>>))

C2_Witness ==
    /\ prev.op = "Set"
    /\ prev.before = MapOf1("a", MapOf1("b", Leaf("1")))
    /\ prev.keys = <<"a">>
    /\ prev.arg = MapOf1("a", Leaf("x"))
    /\ last.op = "Get"
    /\ last.keys = <<"a", "a">>
    /\ last.value = Leaf("x")
    /\ resource = MapOf1("a", MapOf2("a", Leaf("x"), "b", Leaf("1")))

\* C3: Merge completes without failure on every entry, also one whose
\* resource is absent, and for every field, also the root: afterwards every
\* map down to the field's path exists, every key of mapValues has its value
\* under the field, and the other keys of the target map are as they were.
C3_MergeNeverFails ==
    last.op = "Merge" =>
        /\ last.err = "nil"
        /\ Stored(resource, last.keys)
        /\ resource[last.keys] = "map"
        /\ Overlaid(resource, last.keys, last.arg)
        /\ OthersKept(last.before, resource, last.keys, last.arg)

\* C4: after Delete on a non-root field, Get on that field finds nothing; and
\* when Get found x before the Delete, the Delete returns x and true and
\* removes the terminal key alone.
C4_DeleteThenGet ==
    /\ (Then("Delete", "Get") /\ last.keys # << >>) => ~last.ok
    /\ (Then("Get", "Delete") /\ last.keys # << >> /\ prev.ok) =>
            /\ last.ok
            /\ last.value = prev.value
            /\ DOMAIN resource = {r \in DOMAIN last.before : ~IsPrefix(last.keys, r)}
            /\ \A r \in DOMAIN resource : resource[r] = last.before[r]

C4_Witness ==
    /\ Then("Get", "Delete")
    /\ prev.ok
    /\ Len(last.keys) = 2
    /\ last.ok
    /\ IsMap(last.value)
    /\ Cardinality(DOMAIN resource) > 2

\* C5: Delete on the root field returns the whole prior resource and leaves
\* the resource absent; a root Get made next finds nothing and a root Delete
\* made next reports existed = false.
C5_DeleteRoot ==
    /\ (last.op = "Delete" /\ last.keys = << >>) =>
            /\ resource = Absent
            /\ last.before # Absent => (last.ok /\ last.value = last.before)
            /\ last.before = Absent => ~last.ok
    /\ (Then("Delete", "Get") /\ last.keys = << >>) => ~last.ok
    /\ (Then("Delete", "Delete") /\ last.keys = << >>) => ~last.ok

C5_Witness ==
    /\ Then("Delete", "Delete")
    /\ last.keys = << >>
    /\ prev.ok
    /\ prev.value = MapOf1("a", MapOf1("b", Leaf("1")))
    /\ ~last.ok

\* C10: Set on the root field with a value that is not a map returns an
\* error and leaves the entry unchanged: a resource that was absent is still
\* absent, so that a root Get made next finds nothing and a root Delete made
\* next reports existed = false.
C10_RootSetErrorKeepsEntry ==
    /\ (last.op = "Set" /\ last.keys = << >> /\ ~IsMap(last.arg)) =>
            (last.err = "error" /\ resource = last.before)
    /\ (Then("Set", "Get") /\ last.keys = << >> /\ ~IsMap(prev.arg)
          /\ prev.before = Absent) => ~last.ok
    /\ (Then("Set", "Delete") /\ last.keys = << >> /\ ~IsMap(prev.arg)
          /\ prev.before = Absent) => ~last.ok

\* C9: fields are immutable locators.  Every field keeps the keys it was
\* built with through every later Parent, Child, Get, Set, Merge and Delete;
\* Parent is the field itself at root and otherwise the field without its
\* last key; Child(k) has the receiver's keys followed by k and changes the
\* keys of no field, also not of one that shares the receiver's backing
\* array; so f.Parent().Child(lastKey) has the keys of f.
C9_FieldsImmutable ==
    \A i \in DOMAIN fields :
        LET f == fields[i]
            keys == KeysOf(arrays, f)
            p == Parent(arrays, f)
        IN  /\ keys = want[i]
            /\ p.arrays = arrays
            /\ isRoot(keys) => p.field = f
            /\ ~isRoot(keys) =>
                  /\ KeysOf(p.arrays, p.field) = Front(keys)
                  /\ LET c == Child(p.arrays, p.field, keys[Len(keys)])
                     IN  /\ KeysOf(c.arrays, c.field) = keys
                         /\ \A j \in DOMAIN fields :
                                KeysOf(c.arrays, fields[j]) = want[j]
            /\ \A k \in Keys :
                  LET c == Child(arrays, f, k)
                  IN  /\ KeysOf(c.arrays, c.field) = Append(keys, k)
                      /\ \A j \in DOMAIN fields :
                            KeysOf(c.arrays, fields[j]) = want[j]

\* a field of two keys, its Parent on the same backing array, a Child of that
\* Parent with another last key, and a call made on the entry
C9_Witness ==
    /\ Len(fields) = 3
    /\ fields[1].len = 2
    /\ fields[2] = [arr |-> fields[1].arr, len |-> 1]
    /\ want[3] = Append(want[2], "c")
    /\ want[1] = Append(want[2], "b")
    /\ KeysOf(arrays, fields[1]) = want[1]
    /\ calls > 0

====
